---- MODULE Spec2Model ----
\* Subscription pipeline of async-graphql: the process-wide sender registry
\* and publish() (src/src/schema.rs), the websocket session actor
\* (src/async-graphql-actix-web/src/session.rs) and the subscription stub
\* compiler (src/src/schema.rs, create_subscription_stub).
EXTENDS Integers, Sequences, FiniteSets, TLC

\* ------------------------------------------------------------------ bounds
MaxSessions == 2        \* sessions opened in one behaviour
MaxPublishers == 2      \* concurrent callers of publish
MaxEvents == 2          \* publish calls in one behaviour (registry specification)
MaxHbEvents == 1        \* publish calls in one behaviour (heartbeat specification)
ChanCap == 1            \* capacity of a subscriber's event channel
PipeCap == 1            \* capacity of a session's pipeline sink
MaxFrames == 1          \* frames one client sends (registry specification)
MaxHbFrames == 3        \* frames one client sends (heartbeat specification)
MaxInbox == 1           \* frames waiting in a session's transport stream

\* ------------------------------------------------------- program constants
TickInterval == 1       \* Duration::new(1, 0) of run_interval
Window == 10            \* Duration::new(10, 0) of the liveness test

Sessions == 1..MaxSessions
Publishers == 1..MaxPublishers
NoOne == 0
ElapsedCap == Window + 2 * TickInterval

VARIABLES
    \* SUBSCRIPTION_SENDERS: Mutex<Slab<MsgSender>>
    slab,        \* Slab entries: sequence of [occ, val]; key k is slab[k+1]
    slabNext,    \* Slab's head of the vacant list
    lock,        \* holder of the Mutex: a publisher, or NoOne
    \* one mpsc channel per registered session
    chanQ,       \* chanQ[s]: events queued for session s
    rxAlive,     \* rxAlive[s]: the Receiver half has not been dropped
    \* publish(), one activation per publisher
    pc,          \* "idle" | "lock" | "iter" | "done" | "panic"
    pubSeq,      \* number of publish calls started by the publisher
    pubIdx,      \* position of senders.iter_mut()
    remove,      \* the remove Vec
    passStart,   \* <<key, session>> pairs the pass found registered
    passOk,      \* keys whose send returned Ok in this pass
    passDead,    \* keys whose receiver was dropped when the send ran
    \* WsSession actor
    sessState,   \* "None" | "Connecting" | "Active" | "Closed"
    sink,        \* self.sink is Some
    wait,        \* context paused by .wait(ctx): "none" | "connect" | "relay"
    inbox,       \* frames of the transport stream not yet handled
    sent,        \* frames the client has sent
    pipeQ,       \* items queued in the pipeline sink
    pipeAlive,   \* the pipeline sink's receiver is alive
    pongOut,     \* payloads of the pongs written by ctx.pong
    recv,        \* the events written to the transport by ctx.text, in order
    closedBy,    \* "none" | "error" | "frame" | "heartbeat"
    elapsed,     \* Instant::now() - self.hb, saturating at ElapsedCap
    tickDue,     \* the run_interval timer has fired and is not yet handled
    gap,         \* time since the client last sent a ping or pong (sticky past Window)
    silent,      \* time since the client last sent any frame
    covered,     \* covered[s]: events whose publish began and ended with s registered
    \* create_subscription_stub
    doc,         \* the parsed document
    opName,      \* the requested operation name
    stub         \* result of the compilation

regVars == <<slab, slabNext, lock, chanQ, rxAlive>>
pubVars == <<pc, pubSeq, pubIdx, remove, passStart, passOk, passDead, covered>>
sessVars == <<sessState, sink, wait, inbox, sent, pipeQ, pipeAlive, pongOut, recv,
              closedBy>>
timeVars == <<elapsed, tickDue, gap, silent>>
stubVars == <<doc, opName, stub>>
vars == <<regVars, pubVars, sessVars, timeVars, stubVars>>

Min(a, b) == IF a < b THEN a ELSE b

\* ------------------------------------------------------------------- Slab
Occupied(v) == [occ |-> TRUE, val |-> v]
Vacant(n) == [occ |-> FALSE, val |-> n]

SlabKeys == {k \in 0..(Len(slab) - 1) : slab[k + 1].occ}
SlabSessions == {slab[k + 1].val : k \in SlabKeys}
Registered(s) == s \in SlabSessions

\* Slab::insert: the key is the head of the vacant list
SlabInsert(sl, nx, v) ==
    IF nx = Len(sl)
    THEN [slab |-> Append(sl, Occupied(v)), next |-> nx + 1, key |-> nx]
    ELSE [slab |-> [sl EXCEPT ![nx + 1] = Occupied(v)],
          next |-> sl[nx + 1].val, key |-> nx]

\* Slab::remove: the freed key becomes the head of the vacant list; a key
\* that holds no value panics ("invalid key") and leaves the slab as it was
SlabRemove(sl, nx, k) ==
    IF k < Len(sl) /\ sl[k + 1].occ
    THEN [slab |-> [sl EXCEPT ![k + 1] = Vacant(nx)], next |-> k, panic |-> FALSE]
    ELSE [slab |-> sl, next |-> nx, panic |-> TRUE]

\* for id in remove { senders.remove(id); }: the loop ends at a panic
RECURSIVE RemoveAll(_, _, _)
RemoveAll(sl, nx, ids) ==
    IF ids = <<>> THEN [slab |-> sl, next |-> nx, panic |-> FALSE]
    ELSE LET r == SlabRemove(sl, nx, Head(ids))
         IN IF r.panic THEN r ELSE RemoveAll(r.slab, r.next, Tail(ids))

\* ---------------------------------------------------------------- publish
Event(p) == <<p, pubSeq[p]>>

\* senders.iter_mut() visits the occupied keys in ascending order
KeysFrom(i) == {k \in SlabKeys : k >= i}
NextKey(i) == CHOOSE k \in KeysFrom(i) : \A j \in KeysFrom(i) : k <= j

\* sender.send(msg).await resolves: with Err once the receiver is dropped,
\* with Ok once the bounded channel has room
SendErr(s) == ~rxAlive[s]
\* variant of SendReady: a send to a dropped receiver never resolves
SendReadyNoErr(s) == rxAlive[s] /\ Len(chanQ[s]) < ChanCap
SendReady(s) == SendErr(s) \/ Len(chanQ[s]) < ChanCap

RECURSIVE SumTo(_, _)
SumTo(f, n) == IF n = 0 THEN 0 ELSE f[n] + SumTo(f, n - 1)
Started == SumTo(pubSeq, MaxPublishers)

\* a caller enters publish(msg) and waits for SUBSCRIPTION_SENDERS.lock()
PublishStart(p, budget) ==
    /\ pc[p] = "idle"
    /\ Started < budget
    /\ pc' = [pc EXCEPT ![p] = "lock"]
    /\ pubSeq' = [pubSeq EXCEPT ![p] = @ + 1]
    /\ UNCHANGED <<regVars, pubIdx, remove, passStart, passOk, passDead, covered,
                   sessVars, timeVars, stubVars>>

\* variant of PublishLock: the pass starts without waiting for the guard
PublishLockFree(p) ==
    /\ pc[p] = "lock"
    /\ lock' = p
    /\ pc' = [pc EXCEPT ![p] = "iter"]
    /\ passStart' = [passStart EXCEPT ![p] = {<<k, slab[k + 1].val>> : k \in SlabKeys}]
    /\ UNCHANGED <<slab, slabNext, chanQ, rxAlive, pubSeq, pubIdx, remove, passOk,
                   passDead, covered, sessVars, timeVars, stubVars>>

\* let mut senders = SUBSCRIPTION_SENDERS.lock().await; let mut remove = Vec::new();
PublishLock(p) ==
    /\ pc[p] = "lock"
    /\ lock = NoOne
    /\ lock' = p
    /\ pc' = [pc EXCEPT ![p] = "iter"]
    /\ passStart' = [passStart EXCEPT ![p] = {<<k, slab[k + 1].val>> : k \in SlabKeys}]
    /\ UNCHANGED <<slab, slabNext, chanQ, rxAlive, pubSeq, pubIdx, remove, passOk,
                   passDead, covered, sessVars, timeVars, stubVars>>

\* variant of PublishSend: the pass is abandoned at the first failed send
PublishSendAbort(p) ==
    /\ pc[p] = "iter"
    /\ KeysFrom(pubIdx[p]) # {}
    /\ LET id == NextKey(pubIdx[p])
           s == slab[id + 1].val
       IN /\ SendReady(s)
          /\ passDead' = [passDead EXCEPT ![p] = IF rxAlive[s] THEN @ ELSE @ \cup {id}]
          /\ IF SendErr(s)
             THEN /\ remove' = [remove EXCEPT ![p] = Append(@, id)]
                  /\ pubIdx' = [pubIdx EXCEPT ![p] = Len(slab)]
                  /\ UNCHANGED <<chanQ, passOk>>
             ELSE /\ chanQ' = [chanQ EXCEPT ![s] = Append(@, Event(p))]
                  /\ passOk' = [passOk EXCEPT ![p] = @ \cup {id}]
                  /\ pubIdx' = [pubIdx EXCEPT ![p] = id + 1]
                  /\ UNCHANGED remove
    /\ UNCHANGED <<slab, slabNext, lock, rxAlive, pc, pubSeq, passStart, covered,
                   sessVars, timeVars, stubVars>>

\* variant of PublishSend: try_send in place of send().await, a full
\* channel loses the event
PublishSendTry(p) ==
    /\ pc[p] = "iter"
    /\ KeysFrom(pubIdx[p]) # {}
    /\ LET id == NextKey(pubIdx[p])
           s == slab[id + 1].val
       IN /\ passDead' = [passDead EXCEPT ![p] = IF rxAlive[s] THEN @ ELSE @ \cup {id}]
          /\ IF SendErr(s)
             THEN /\ remove' = [remove EXCEPT ![p] = Append(@, id)]
                  /\ UNCHANGED <<chanQ, passOk>>
             ELSE /\ chanQ' = [chanQ EXCEPT ![s] = IF Len(@) < ChanCap
                                                    THEN Append(@, Event(p)) ELSE @]
                  /\ passOk' = [passOk EXCEPT ![p] = @ \cup {id}]
                  /\ UNCHANGED remove
          /\ pubIdx' = [pubIdx EXCEPT ![p] = id + 1]
    /\ UNCHANGED <<slab, slabNext, lock, rxAlive, pc, pubSeq, passStart, covered,
                   sessVars, timeVars, stubVars>>

\* variant of PublishSend: the guard is given up once a send has resolved
PublishSendUnguarded(p) ==
    /\ pc[p] = "iter"
    /\ KeysFrom(pubIdx[p]) # {}
    /\ LET id == NextKey(pubIdx[p])
           s == slab[id + 1].val
       IN /\ SendReady(s)
          /\ passDead' = [passDead EXCEPT ![p] = IF rxAlive[s] THEN @ ELSE @ \cup {id}]
          /\ IF SendErr(s)
             THEN /\ remove' = [remove EXCEPT ![p] = Append(@, id)]
                  /\ UNCHANGED <<chanQ, passOk>>
             ELSE /\ chanQ' = [chanQ EXCEPT ![s] = Append(@, Event(p))]
                  /\ passOk' = [passOk EXCEPT ![p] = @ \cup {id}]
                  /\ UNCHANGED remove
          /\ pubIdx' = [pubIdx EXCEPT ![p] = id + 1]
    /\ lock' = NoOne
    /\ UNCHANGED <<slab, slabNext, rxAlive, pc, pubSeq, passStart, covered,
                   sessVars, timeVars, stubVars>>

\* one turn of: for (id, sender) in senders.iter_mut() {
\*     if sender.send(msg.clone()).await.is_err() { remove.push(id); } }
PublishSend(p) ==
    /\ pc[p] = "iter"
    /\ KeysFrom(pubIdx[p]) # {}
    /\ LET id == NextKey(pubIdx[p])
           s == slab[id + 1].val
       IN /\ SendReady(s)
          /\ passDead' = [passDead EXCEPT ![p] = IF rxAlive[s] THEN @ ELSE @ \cup {id}]
          /\ IF SendErr(s)
             THEN /\ remove' = [remove EXCEPT ![p] = Append(@, id)]
                  /\ UNCHANGED <<chanQ, passOk>>
             ELSE /\ chanQ' = [chanQ EXCEPT ![s] = Append(@, Event(p))]
                  /\ passOk' = [passOk EXCEPT ![p] = @ \cup {id}]
                  /\ UNCHANGED remove
          /\ pubIdx' = [pubIdx EXCEPT ![p] = id + 1]
    /\ UNCHANGED <<slab, slabNext, lock, rxAlive, pc, pubSeq, passStart, covered,
                   sessVars, timeVars, stubVars>>

\* for id in remove { senders.remove(id); }; a panic unwinds the task, which
\* drops the MutexGuard
PublishPrune(p) ==
    /\ pc[p] = "iter"
    /\ KeysFrom(pubIdx[p]) = {}
    /\ LET r == RemoveAll(slab, slabNext, remove[p])
       IN /\ slab' = r.slab
          /\ slabNext' = r.next
          /\ pc' = [pc EXCEPT ![p] = IF r.panic THEN "panic" ELSE "done"]
          /\ lock' = IF r.panic THEN NoOne ELSE lock
    /\ UNCHANGED <<chanQ, rxAlive, pubSeq, pubIdx, remove, passStart, passOk,
                   passDead, covered, sessVars, timeVars, stubVars>>

\* end of publish: the MutexGuard is dropped and the future resolves to ()
PublishReturn(p) ==
    /\ pc[p] = "done"
    /\ lock' = NoOne
    /\ pc' = [pc EXCEPT ![p] = "idle"]
    /\ covered' = [s \in Sessions |->
                     IF /\ \E k \in SlabKeys : <<k, s>> \in passStart[p]
                        /\ Registered(s)
                     THEN covered[s] \cup {Event(p)} ELSE covered[s]]
    /\ pubIdx' = [pubIdx EXCEPT ![p] = 0]
    /\ remove' = [remove EXCEPT ![p] = <<>>]
    /\ passStart' = [passStart EXCEPT ![p] = {}]
    /\ passOk' = [passOk EXCEPT ![p] = {}]
    /\ passDead' = [passDead EXCEPT ![p] = {}]
    /\ UNCHANGED <<slab, slabNext, chanQ, rxAlive, pubSeq, sessVars, timeVars, stubVars>>

\* ---------------------------------------------------------------- session
Live(s) == sessState[s] \in {"Connecting", "Active"}
Kind(f) == f[1]
Payload(f) == f[2]
Terminal == {"Binary", "Close", "Continuation"}
MaxPayload == 2          \* distinct payloads a ping carries
Payloads == 1..MaxPayload
NoPayload == 0

\* WsSession::new and Actor::started up to .wait(ctx): hb = Instant::now(),
\* sink = None, the interval is registered, the context waits for
\* subscription_connection
Open(s) ==
    /\ sessState[s] = "None"
    /\ \A t \in Sessions : t < s => sessState[t] # "None"
    /\ sessState' = [sessState EXCEPT ![s] = "Connecting"]
    /\ wait' = [wait EXCEPT ![s] = "connect"]
    /\ UNCHANGED <<regVars, pubVars, sink, inbox, sent, pipeQ, pipeAlive, pongOut, recv, closedBy, timeVars, stubVars>>

\* create_connection: under the registry guard a new channel's sender is
\* inserted into the registry; the receiver and the pipeline sink go to the
\* session
RegisterReady == lock = NoOne
Register(s) ==
    /\ LET r == SlabInsert(slab, slabNext, s)
       IN /\ slab' = r.slab
          /\ slabNext' = r.next
    /\ rxAlive' = [rxAlive EXCEPT ![s] = TRUE]
    /\ pipeAlive' = [pipeAlive EXCEPT ![s] = TRUE]
    /\ UNCHANGED <<lock, chanQ, pipeQ>>

\* the future given to .wait(ctx) in started resolves: subscription_connection
\* returns and the .then closure stores the sink and adds the stream
ConnectReady(s) == sessState[s] = "Connecting" /\ wait[s] = "connect" /\ RegisterReady
Connect(s) ==
    /\ ConnectReady(s)
    /\ Register(s)
    /\ sink' = [sink EXCEPT ![s] = TRUE]
    /\ wait' = [wait EXCEPT ![s] = "none"]
    /\ sessState' = [sessState EXCEPT ![s] = "Active"]
    /\ UNCHANGED <<pubVars, inbox, sent, pongOut, recv, closedBy, timeVars, stubVars>>

\* the client puts a frame (or a protocol error) on the transport
ClientSend(s, f, budget) ==
    /\ Live(s)
    /\ sent[s] < budget
    /\ Len(inbox[s]) < MaxInbox
    /\ inbox' = [inbox EXCEPT ![s] = Append(@, f)]
    /\ sent' = [sent EXCEPT ![s] = @ + 1]
    /\ silent' = [silent EXCEPT ![s] = 0]
    /\ gap' = [gap EXCEPT ![s] = IF Kind(f) \in {"Ping", "Pong"} /\ @ <= Window
                                  THEN 0 ELSE @]
    /\ UNCHANGED <<regVars, pubVars, sessState, sink, wait, pipeQ, pipeAlive, pongOut, recv, closedBy, elapsed, tickDue, stubVars>>

\* ctx.stop(): the actor stops and is dropped with its context, and with it
\* the subscription stream that holds the channel's receiver
Stop(s, why) ==
    /\ sessState' = [sessState EXCEPT ![s] = "Closed"]
    /\ closedBy' = [closedBy EXCEPT ![s] = why]
    /\ rxAlive' = [rxAlive EXCEPT ![s] = FALSE]
    /\ chanQ' = [chanQ EXCEPT ![s] = <<>>]
    /\ tickDue' = [tickDue EXCEPT ![s] = FALSE]
    /\ UNCHANGED <<slab, slabNext, lock>>

\* Err(_) => { ctx.stop(); return; }
HandleErr(s) ==
    /\ Stop(s, "error")
    /\ UNCHANGED <<wait, pongOut, elapsed>>

\* variant of HandlePing: the pong is written without the ping's payload
HandlePingBarePong(s, msg) ==
    /\ elapsed' = [elapsed EXCEPT ![s] = 0]
    /\ pongOut' = [pongOut EXCEPT ![s] = Append(@, NoPayload)]
    /\ UNCHANGED <<regVars, sessState, closedBy, tickDue, wait>>

\* Message::Ping(msg) => { self.hb = Instant::now(); ctx.pong(&msg); }
HandlePing(s, msg) ==
    /\ elapsed' = [elapsed EXCEPT ![s] = 0]
    /\ pongOut' = [pongOut EXCEPT ![s] = Append(@, msg)]
    /\ UNCHANGED <<regVars, sessState, closedBy, tickDue, wait>>

\* Message::Pong(_) => { self.hb = Instant::now(); }
HandlePong(s) ==
    /\ elapsed' = [elapsed EXCEPT ![s] = 0]
    /\ UNCHANGED <<regVars, sessState, closedBy, tickDue, wait, pongOut>>

\* variant of HandleText: a Text frame that finds no sink stops the session
HandleTextStrict(s) ==
    IF sink[s]
    THEN /\ wait' = [wait EXCEPT ![s] = "relay"]
         /\ UNCHANGED <<regVars, sessState, closedBy, tickDue, pongOut, elapsed>>
    ELSE /\ Stop(s, "error")
         /\ UNCHANGED <<wait, pongOut, elapsed>>

\* Message::Text(s) => if let Some(sink) = self.sink.clone() {
\*     async move { sink.send(s.into()).await } ... .wait(ctx) }
HandleText(s) ==
    /\ wait' = [wait EXCEPT ![s] = IF sink[s] THEN "relay" ELSE @]
    /\ UNCHANGED <<regVars, sessState, closedBy, tickDue, pongOut, elapsed>>

\* variant of HandleTerminal: the frame is ignored like a Nop
HandleTerminalIgnored(s) ==
    UNCHANGED <<regVars, sessState, closedBy, tickDue, wait, pongOut, elapsed>>

\* Message::Binary(_) | Message::Close(_) | Message::Continuation(_) => ctx.stop()
HandleTerminal(s) ==
    /\ Stop(s, "frame")
    /\ UNCHANGED <<wait, pongOut, elapsed>>

\* Message::Nop => {}
HandleNop(s) ==
    UNCHANGED <<regVars, sessState, closedBy, tickDue, wait, pongOut, elapsed>>

\* StreamHandler<Result<Message, ProtocolError>>::handle; the context polls
\* the transport stream only while it is not paused by a wait future
HandleReady(s) == Live(s) /\ wait[s] = "none" /\ inbox[s] # <<>>
Handle(s) ==
    /\ HandleReady(s)
    /\ inbox' = [inbox EXCEPT ![s] = IF Kind(Head(@)) \in Terminal \cup {"Err"}
                                      THEN <<>> ELSE Tail(@)]
    /\ LET f == Head(inbox[s])
       IN CASE Kind(f) = "Err" -> HandleErr(s)
            [] Kind(f) = "Ping" -> HandlePing(s, Payload(f))
            [] Kind(f) = "Pong" -> HandlePong(s)
            [] Kind(f) = "Text" -> HandleText(s)
            [] Kind(f) \in Terminal -> HandleTerminal(s)
            [] OTHER -> HandleNop(s)
    /\ UNCHANGED <<pubVars, sink, sent, pipeQ, pipeAlive, recv, gap, silent,
                   stubVars>>

\* the future sink.send(s).await given to .wait(ctx) resolves: Ok once the
\* pipeline sink has room, Err (dropped by the .then closure) once its
\* receiver is gone; the context resumes
RelayReady(s) == wait[s] = "relay" /\ (~pipeAlive[s] \/ pipeQ[s] < PipeCap)
\* variant of RelayDone: a failed send stops the session
RelayDoneStrict(s) ==
    /\ RelayReady(s)
    /\ wait' = [wait EXCEPT ![s] = "none"]
    /\ IF pipeAlive[s]
       THEN /\ pipeQ' = [pipeQ EXCEPT ![s] = @ + 1]
            /\ UNCHANGED <<regVars, sessState, closedBy, timeVars>>
       ELSE /\ Stop(s, "error")
            /\ UNCHANGED <<pipeQ, elapsed, gap, silent>>
    /\ UNCHANGED <<pubVars, sink, inbox, sent, pipeAlive, pongOut, recv, stubVars>>
RelayDone(s) ==
    /\ RelayReady(s)
    /\ wait' = [wait EXCEPT ![s] = "none"]
    /\ IF pipeAlive[s]
       THEN pipeQ' = [pipeQ EXCEPT ![s] = @ + 1]
       ELSE UNCHANGED pipeQ
    /\ UNCHANGED <<regVars, pubVars, sessState, sink, inbox, sent, pipeAlive, pongOut,
                   recv, closedBy, timeVars, stubVars>>

\* the subscription pipeline takes one item from the sink's channel
PipeDrain(s) ==
    /\ pipeAlive[s]
    /\ pipeQ[s] > 0
    /\ pipeQ' = [pipeQ EXCEPT ![s] = @ - 1]
    /\ UNCHANGED <<regVars, pubVars, sessState, sink, wait, inbox, sent, pipeAlive,
                   pongOut, recv, closedBy, timeVars, stubVars>>

\* the subscription pipeline drops the sink's receiver
PipeClose(s) ==
    /\ sessState[s] = "Active"
    /\ pipeAlive[s]
    /\ pipeAlive' = [pipeAlive EXCEPT ![s] = FALSE]
    /\ UNCHANGED <<regVars, pubVars, sessState, sink, wait, inbox, sent, pipeQ,
                   pongOut, recv, closedBy, timeVars, stubVars>>

\* StreamHandler<Bytes>::handle: an item of the subscription stream is
\* written to the transport with ctx.text
EventReady(s) == sessState[s] = "Active" /\ wait[s] = "none" /\ chanQ[s] # <<>>
SessionEvent(s) ==
    /\ EventReady(s)
    /\ chanQ' = [chanQ EXCEPT ![s] = Tail(@)]
    /\ recv' = [recv EXCEPT ![s] = Append(@, Head(chanQ[s]))]
    /\ UNCHANGED <<slab, slabNext, lock, rxAlive, pubVars, sessState, sink, wait, inbox,
                   sent, pipeQ, pipeAlive, pongOut, closedBy, timeVars,
                   stubVars>>

\* if Instant::now().duration_since(act.hb) > Duration::new(10, 0)
Expired(e) == e > Window

\* the closure of ctx.run_interval(Duration::new(1, 0), ..)
TickReady(s) == Live(s) /\ wait[s] = "none" /\ tickDue[s]
Tick(s) ==
    /\ TickReady(s)
    /\ IF Expired(elapsed[s])
       THEN Stop(s, "heartbeat")
       ELSE /\ tickDue' = [tickDue EXCEPT ![s] = FALSE]
            /\ UNCHANGED <<regVars, sessState, closedBy>>
    /\ UNCHANGED <<pubVars, sink, wait, inbox, sent, pipeQ, pipeAlive, pongOut, recv, elapsed, gap, silent, stubVars>>

\* handlers and unblocked steps take no time: the clock advances only when
\* none of them can run
PublishCanStep(p) ==
    \/ pc[p] = "lock" /\ lock = NoOne
    \/ pc[p] = "done"
    \/ pc[p] = "iter" /\ KeysFrom(pubIdx[p]) = {}
    \/ pc[p] = "iter" /\ KeysFrom(pubIdx[p]) # {}
                      /\ SendReady(slab[NextKey(pubIdx[p]) + 1].val)
Urgent ==
    \/ \E s \in Sessions : \/ HandleReady(s) \/ TickReady(s) \/ EventReady(s)
                           \/ ConnectReady(s) \/ RelayReady(s)
    \/ \E p \in Publishers : PublishCanStep(p)

\* one tick interval passes
TimePass ==
    /\ ~Urgent
    /\ \E s \in Sessions : Live(s)
    /\ elapsed' = [s \in Sessions |-> IF Live(s)
                     THEN Min(elapsed[s] + TickInterval, ElapsedCap) ELSE elapsed[s]]
    /\ silent' = [s \in Sessions |-> IF Live(s)
                     THEN Min(silent[s] + TickInterval, ElapsedCap) ELSE silent[s]]
    /\ gap' = [s \in Sessions |-> IF Live(s)
                     THEN Min(gap[s] + TickInterval, Window + 1) ELSE gap[s]]
    /\ tickDue' = [s \in Sessions |-> IF Live(s) THEN TRUE ELSE tickDue[s]]
    /\ UNCHANGED <<regVars, pubVars, sessVars, stubVars>>

\* ---------------------------------------------- create_subscription_stub
NoName == ""
Field(n, d) == [t |-> "field", name |-> n, dir |-> d, sel |-> <<>>]
FragmentSpread(n, d) == [t |-> "spread", name |-> n, dir |-> d, sel |-> <<>>]
InlineFragment(d, ss) == [t |-> "inline", name |-> NoName, dir |-> d, sel |-> ss]
Subscription(n, ss) == [kind |-> "subscription", name |-> n, sel |-> ss]
Query(n) == [kind |-> "query", name |-> n, sel |-> <<>>]
Fragment(n, ss) == [kind |-> "fragment", name |-> n, sel |-> ss]
NoOperation == [kind |-> "none", name |-> NoName, sel |-> <<>>]

NoStub == [state |-> "none"]
Ok(types) == [ok |-> TRUE, types |-> types]
Err(e) == [ok |-> FALSE, err |-> e]

\* HashMap::new and HashMap::insert
EmptyMap == <<>>
MapInsert(m, k, v) == [x \in DOMAIN m \cup {k} |-> IF x = k THEN v ELSE m[x]]

\* ctx.is_skip(directives): @skip(if: true) and @include(if: false) omit
IsSkip(d) == d \in {"skip_true", "include_false"}

\* the EventTypeId a subscription field is satisfied by
FieldType(n) == CASE n = "a" -> 1 [] n = "b" -> 2 [] OTHER -> 1

\* T::create_type(field, types): the first field registered for an event
\* type keeps the entry
CreateType(field, types) ==
    IF FieldType(field.name) \in DOMAIN types
    THEN Ok(types)
    ELSE Ok(MapInsert(types, FieldType(field.name), field.name))

\* variant of ScanDefinitions: the first subscription operation is taken
\* without comparing its name
RECURSIVE ScanDefinitionsAnyName(_, _, _)
ScanDefinitionsAnyName(defs, name, frags) ==
    IF defs = <<>> THEN [subscription |-> NoOperation, fragments |-> frags]
    ELSE LET d == Head(defs)
         IN CASE d.kind = "subscription" -> [subscription |-> d, fragments |-> frags]
              [] d.kind = "fragment" ->
                    ScanDefinitionsAnyName(Tail(defs), name,
                                           MapInsert(frags, d.name, d.sel))
              [] OTHER -> ScanDefinitionsAnyName(Tail(defs), name, frags)

\* for definition in document.definitions { .. }: fragments are collected
\* until the subscription named operation_name is met, where the loop breaks
RECURSIVE ScanDefinitions(_, _, _)
ScanDefinitions(defs, name, frags) ==
    IF defs = <<>> THEN [subscription |-> NoOperation, fragments |-> frags]
    ELSE LET d == Head(defs)
         IN CASE d.kind = "subscription" ->
                    IF d.name = name
                    THEN [subscription |-> d, fragments |-> frags]
                    ELSE ScanDefinitions(Tail(defs), name, frags)
              [] d.kind = "fragment" ->
                    ScanDefinitions(Tail(defs), name, MapInsert(frags, d.name, d.sel))
              [] OTHER -> ScanDefinitions(Tail(defs), name, frags)

\* variant of CreateSubscriptionTypes: a spread of a fragment that is not in
\* the table is passed over
RECURSIVE CreateSubscriptionTypesLenient(_, _, _)
CreateSubscriptionTypesLenient(items, fragments, types) ==
    IF items = <<>> THEN Ok(types)
    ELSE LET selection == Head(items)
             r == CASE selection.t = "field" ->
                         IF IsSkip(selection.dir) THEN Ok(types)
                         ELSE CreateType(selection, types)
                    [] selection.t = "spread" ->
                         IF IsSkip(selection.dir) THEN Ok(types)
                         ELSE IF selection.name \in DOMAIN fragments
                              THEN CreateSubscriptionTypesLenient(
                                       fragments[selection.name], fragments, types)
                              ELSE Ok(types)
                    [] OTHER ->
                         IF IsSkip(selection.dir) THEN Ok(types)
                         ELSE CreateSubscriptionTypesLenient(selection.sel, fragments,
                                                             types)
         IN IF r.ok THEN CreateSubscriptionTypesLenient(Tail(items), fragments, r.types)
            ELSE r

\* variant of CreateSubscriptionTypes: the directives of fragment spreads and
\* inline fragments are not looked at
RECURSIVE CreateSubscriptionTypesFieldsOnly(_, _, _)
CreateSubscriptionTypesFieldsOnly(items, fragments, types) ==
    IF items = <<>> THEN Ok(types)
    ELSE LET selection == Head(items)
             r == CASE selection.t = "field" ->
                         IF IsSkip(selection.dir) THEN Ok(types)
                         ELSE CreateType(selection, types)
                    [] selection.t = "spread" ->
                         IF selection.name \in DOMAIN fragments
                         THEN CreateSubscriptionTypesFieldsOnly(
                                  fragments[selection.name], fragments, types)
                         ELSE Err(<<"UnknownFragment", selection.name>>)
                    [] OTHER ->
                         CreateSubscriptionTypesFieldsOnly(selection.sel, fragments,
                                                           types)
         IN IF r.ok THEN CreateSubscriptionTypesFieldsOnly(Tail(items), fragments,
                                                           r.types)
            ELSE r

\* create_subscription_types: depth-first walk that stops at the first error
RECURSIVE CreateSubscriptionTypes(_, _, _)
CreateSubscriptionTypes(items, fragments, types) ==
    IF items = <<>> THEN Ok(types)
    ELSE LET selection == Head(items)
             r == CASE selection.t = "field" ->
                         IF IsSkip(selection.dir) THEN Ok(types)
                         ELSE CreateType(selection, types)
                    [] selection.t = "spread" ->
                         IF IsSkip(selection.dir) THEN Ok(types)
                         ELSE IF selection.name \in DOMAIN fragments
                              THEN CreateSubscriptionTypes(fragments[selection.name],
                                                           fragments, types)
                              ELSE Err(<<"UnknownFragment", selection.name>>)
                    [] OTHER ->
                         IF IsSkip(selection.dir) THEN Ok(types)
                         ELSE CreateSubscriptionTypes(selection.sel, fragments, types)
         IN IF r.ok THEN CreateSubscriptionTypes(Tail(items), fragments, r.types) ELSE r

\* Schema::create_subscription_stub
CreateSubscriptionStub(document, operation_name) ==
    LET scan == ScanDefinitions(document, operation_name, EmptyMap)
    IN IF scan.subscription.kind = "none"
       THEN [state |-> "err",
             err |-> IF operation_name # NoName
                     THEN <<"UnknownOperationNamed", operation_name>>
                     ELSE <<"MissingOperation", NoName>>]
       ELSE LET r == CreateSubscriptionTypes(scan.subscription.sel, scan.fragments,
                                             EmptyMap)
            IN IF r.ok
               THEN [state |-> "ok", types |-> r.types,
                     fragments |-> DOMAIN scan.fragments]
               ELSE [state |-> "err", err |-> r.err]

\* a caller compiles the document
Compile ==
    /\ stub = NoStub
    /\ stub' = CreateSubscriptionStub(doc, opName)
    /\ UNCHANGED <<regVars, pubVars, sessVars, timeVars, doc, opName>>

\* documents: up to MaxDefs definitions drawn from a pool
MaxDefs == 3             \* definitions in one document
OpSels ==
    { <<FragmentSpread("F", "none")>>,
      <<Field("a", "none"), FragmentSpread("F", "none")>>,
      <<FragmentSpread("F", "skip_true")>>,
      <<InlineFragment("none", <<FragmentSpread("G", "none")>>)>>,
      <<Field("a", "none"), Field("c", "none")>>,
      <<FragmentSpread("H", "none"), Field("a", "none")>>,
      <<Field("b", "include_false"), FragmentSpread("F", "include_true")>>,
      <<FragmentSpread("H", "none"), FragmentSpread("G", "none")>>,
      <<InlineFragment("include_false", <<FragmentSpread("H", "none")>>),
        Field("b", "skip_false")>> }
FragSels ==
    { <<Field("a", "none"), Field("b", "none")>>,
      <<Field("a", "none"), Field("b", "skip_true")>>,
      <<FragmentSpread("G", "none"), Field("a", "none")>> }
Defs ==
    {Subscription(n, ss) : n \in {NoName, "S"}, ss \in OpSels}
    \cup {Fragment("F", ss) : ss \in FragSels}
    \cup {Fragment("G", <<Field("b", "none")>>), Query("Q"), Query("S")}
OpNames == {NoName, "S", "T"}

\* what check_rules lets through: no two fragments and no two operations of
\* one name
Validated(d) ==
    \A i, j \in 1..Len(d) :
        (i # j /\ d[i].name = d[j].name) => {d[i].kind, d[j].kind} = {"fragment", "subscription"}
Docs == {d \in UNION {[1..n -> Defs] : n \in 1..MaxDefs} : Validated(d)}


\* ---------------------------------------------------------- specifications
\* frames of the registry specification and of the heartbeat specification
RegFrames == {<<"Text", NoPayload>>, <<"Close", NoPayload>>, <<"Err", NoPayload>>}
HbFrames == {<<k, NoPayload>> : k \in {"Err", "Pong", "Text", "Binary", "Close",
                                       "Continuation", "Nop"}}
            \cup {<<"Ping", x>> : x \in Payloads}
HbSessions == {1}
HbPublishers == {1}

NoDoc == <<>>

InitState ==
    /\ slab = <<>>
    /\ slabNext = 0
    /\ lock = NoOne
    /\ chanQ = [s \in Sessions |-> <<>>]
    /\ rxAlive = [s \in Sessions |-> FALSE]
    /\ pc = [p \in Publishers |-> "idle"]
    /\ pubSeq = [p \in Publishers |-> 0]
    /\ pubIdx = [p \in Publishers |-> 0]
    /\ remove = [p \in Publishers |-> <<>>]
    /\ passStart = [p \in Publishers |-> {}]
    /\ passOk = [p \in Publishers |-> {}]
    /\ passDead = [p \in Publishers |-> {}]
    /\ covered = [s \in Sessions |-> {}]
    /\ sessState = [s \in Sessions |-> "None"]
    /\ sink = [s \in Sessions |-> FALSE]
    /\ wait = [s \in Sessions |-> "none"]
    /\ inbox = [s \in Sessions |-> <<>>]
    /\ sent = [s \in Sessions |-> 0]
    /\ pipeQ = [s \in Sessions |-> 0]
    /\ pipeAlive = [s \in Sessions |-> FALSE]
    /\ pongOut = [s \in Sessions |-> <<>>]
    /\ recv = [s \in Sessions |-> <<>>]
    /\ closedBy = [s \in Sessions |-> "none"]
    /\ elapsed = [s \in Sessions |-> 0]
    /\ tickDue = [s \in Sessions |-> FALSE]
    /\ gap = [s \in Sessions |-> 0]
    /\ silent = [s \in Sessions |-> 0]

Init ==
    /\ InitState
    /\ doc = NoDoc
    /\ opName = NoName
    /\ stub = NoStub

PublishStep(p, budget) ==
    \/ PublishStart(p, budget)
    \/ PublishLock(p)
    \/ PublishSend(p)
    \/ PublishPrune(p)
    \/ PublishReturn(p)

SessionStep(s) ==
    \/ Open(s)
    \/ Connect(s)
    \/ Handle(s)
    \/ RelayDone(s)
    \/ PipeDrain(s)
    \/ SessionEvent(s)

\* registry, publishers and sessions; the clock stands still
Next ==
    \/ \E p \in Publishers : PublishStep(p, MaxEvents)
    \/ \E s \in Sessions : SessionStep(s)
    \/ \E s \in Sessions, f \in RegFrames : ClientSend(s, f, MaxFrames)

Spec == Init /\ [][Next]_vars

\* the executor keeps polling a publish future that can proceed, a session's
\* context keeps polling its streams and wait future, and the subscription
\* pipeline keeps reading its sink
Fairness ==
    /\ \A p \in Publishers :
          WF_vars(PublishLock(p) \/ PublishSend(p) \/ PublishPrune(p) \/ PublishReturn(p))
    /\ \A s \in Sessions :
          /\ WF_vars(SessionEvent(s) \/ RelayDone(s))
          /\ WF_vars(PipeDrain(s))

FairSpec == Spec /\ Fairness

\* one session and one publisher under the clock
NextHb ==
    \/ TimePass
    \/ \E p \in HbPublishers : PublishStep(p, MaxHbEvents)
    \/ \E s \in HbSessions : SessionStep(s)
    \/ \E s \in HbSessions : Tick(s)
    \/ \E s \in HbSessions : PipeClose(s)
    \/ \E s \in HbSessions, f \in HbFrames : ClientSend(s, f, MaxHbFrames)

SpecHb == Init /\ [][NextHb]_vars

\* the stub compiler applied to every document of the pool
InitStub ==
    /\ InitState
    /\ doc \in Docs
    /\ opName \in OpNames
    /\ stub = NoStub

SpecStub == InitStub /\ [][Compile]_vars

\* the frame handler on its own: session 1 is taken with each combination of
\* its fields and one frame on its transport stream; among the combinations
\* are the fields WsSession::new leaves (sink = None) with the context not
\* held by the wait of started, which the actor's scheduling does not let a
\* frame meet
InitHandle ==
    /\ lock = NoOne
    /\ chanQ = [s \in Sessions |-> <<>>]
    /\ pc = [p \in Publishers |-> "idle"]
    /\ pubSeq = [p \in Publishers |-> 0]
    /\ pubIdx = [p \in Publishers |-> 0]
    /\ remove = [p \in Publishers |-> <<>>]
    /\ passStart = [p \in Publishers |-> {}]
    /\ passOk = [p \in Publishers |-> {}]
    /\ passDead = [p \in Publishers |-> {}]
    /\ covered = [s \in Sessions |-> {}]
    /\ pongOut = [s \in Sessions |-> <<>>]
    /\ recv = [s \in Sessions |-> <<>>]
    /\ closedBy = [s \in Sessions |-> "none"]
    /\ tickDue = [s \in Sessions |-> FALSE]
    /\ \E st \in {"Connecting", "Active"}, w \in {"none", "connect"},
          e \in 0..Window, f \in HbFrames, q \in 0..PipeCap :
          /\ st = "Active" => w = "none"
          /\ st = "Connecting" => q = 0
          /\ sessState = [s \in Sessions |-> IF s = 1 THEN st ELSE "None"]
          /\ sink = [s \in Sessions |-> s = 1 /\ st = "Active"]
          /\ wait = [s \in Sessions |-> IF s = 1 THEN w ELSE "none"]
          /\ slab = IF st = "Active" THEN <<Occupied(1)>> ELSE <<>>
          /\ slabNext = IF st = "Active" THEN 1 ELSE 0
          /\ rxAlive = [s \in Sessions |-> s = 1 /\ st = "Active"]
          /\ pipeAlive = [s \in Sessions |-> s = 1 /\ st = "Active"]
          /\ pipeQ = [s \in Sessions |-> IF s = 1 THEN q ELSE 0]
          /\ inbox = [s \in Sessions |-> IF s = 1 THEN <<f>> ELSE <<>>]
          /\ sent = [s \in Sessions |-> IF s = 1 THEN 1 ELSE 0]
          /\ elapsed = [s \in Sessions |-> IF s = 1 THEN e ELSE 0]
          /\ gap = [s \in Sessions |-> IF s = 1 THEN e ELSE 0]
          /\ silent = [s \in Sessions |-> 0]
    /\ doc = NoDoc
    /\ opName = NoName
    /\ stub = NoStub

NextHandle ==
    \E s \in HbSessions : Connect(s) \/ Handle(s) \/ RelayDone(s) \/ PipeDrain(s)

SpecHandle == InitHandle /\ [][NextHandle]_vars

\* ------------------------------------------------------------------ claims
\* the events session s has been handed, in order: written out or still queued
Handed(s) == recv[s] \o chanQ[s]
Got(s) == {Handed(s)[i] : i \in 1..Len(Handed(s))}
PassKeys(p) == {x[1] : x \in passStart[p]}
Blocked(p) ==
    /\ pc[p] = "iter"
    /\ KeysFrom(pubIdx[p]) # {}
    /\ ~SendReady(slab[NextKey(pubIdx[p]) + 1].val)

\* C1: when a publish pass has pruned, every entry it found registered was
\* attempted, the event reached every entry whose receiver was alive at its
\* send, and the registry holds exactly the entries whose send succeeded:
\* every entry with a dropped receiver is gone, no healthy entry is
FanoutIsolation ==
    \A p \in Publishers : pc[p] = "done" =>
        /\ passOk[p] \cup passDead[p] = PassKeys(p)
        /\ passOk[p] \cap passDead[p] = {}
        /\ \A x \in passStart[p] :
              (x[1] \in passOk[p] /\ rxAlive[x[2]]) => Event(p) \in Got(x[2])
        /\ SlabKeys = PassKeys(p) \ passDead[p]
        /\ \A x \in passStart[p] : x[1] \in SlabKeys => slab[x[1] + 1].val = x[2]

\* C1 witness: a finished pass that met a dropped receiver and a live one
FanoutIsolationWitness ==
    \E p \in Publishers : pc[p] = "done" /\ passDead[p] # {} /\ passOk[p] # {}

TerminationDeregisters ==
    \A s \in Sessions : sessState[s] = "Closed" => ~Registered(s)

\* C5: the registry guard is not held by a publisher that is suspended on a
\* live subscriber's full channel
GuardScope ==
    \A p \in Publishers : Blocked(p) => lock # p

\* C4: under fair scheduling every call of publish returns
PublishReturns ==
    \A p \in Publishers : (pc[p] # "idle") ~> (pc[p] = "idle")

\* C4 witness: a publish suspended on a live subscriber's full channel
PublishReturnsWitness ==
    \E p \in Publishers : Blocked(p)

PendingBeat(s) == inbox[s] # <<>> /\ Kind(Head(inbox[s])) \in {"Ping", "Pong"}

\* C6: while a session is Active, a pending ping or pong frame or a due
\* heartbeat tick is not held back by the relay of a Text frame that is stuck
\* on a full pipeline sink
NoStarvation ==
    \A s \in Sessions :
        (sessState[s] = "Active" /\ (tickDue[s] \/ PendingBeat(s)))
            => (wait[s] = "none" \/ RelayReady(s))

\* C7: a session whose client has sent a ping or pong at intervals of at most
\* Window is not closed by the heartbeat timer
KeepAlive ==
    \A s \in Sessions : closedBy[s] = "heartbeat" => gap[s] > Window

\* C8: a session without inbound activity is Closed no later than
\* Window + TickInterval after the last activity
TimeoutCloses ==
    \A s \in Sessions : Live(s) => silent[s] <= Window + TickInterval

\* C9: handling a protocol error or a Binary, Continuation or Close frame
\* closes the session in that step, starts no relay into the pipeline sink
\* and leaves the heartbeat timestamp alone; a Closed session stays Closed
TerminalFrames ==
    [][\A s \in Sessions :
          /\ (/\ HandleReady(s)
              /\ Kind(Head(inbox[s])) \in Terminal \cup {"Err"}
              /\ Len(inbox'[s]) < Len(inbox[s]))
             => /\ sessState'[s] = "Closed"
                /\ wait'[s] = "none"
                /\ pipeQ'[s] = pipeQ[s]
                /\ elapsed'[s] = elapsed[s]
          /\ sessState[s] = "Closed" => sessState'[s] = "Closed"]_vars

\* C9 witness: a session closed by a terminal frame some time after its last
\* heartbeat
TerminalFramesWitness ==
    \E s \in Sessions : closedBy[s] = "frame" /\ elapsed[s] > 0

\* every fragment definition of the document, wherever it stands
DocFragments(d) ==
    [n \in {d[i].name : i \in {j \in 1..Len(d) : d[j].kind = "fragment"}} |->
        d[CHOOSE i \in 1..Len(d) : d[i].kind = "fragment" /\ d[i].name = n].sel]
\* the first subscription operation of the document with the requested name
Matches(d, n) == {i \in 1..Len(d) : d[i].kind = "subscription" /\ d[i].name = n}
SelectedOp(d, n) == d[CHOOSE i \in Matches(d, n) : \A j \in Matches(d, n) : i <= j]
\* the selection set spreads a fragment that is not skipped
RECURSIVE Spreads(_)
Spreads(items) ==
    \E i \in 1..Len(items) :
        /\ ~IsSkip(items[i].dir)
        /\ \/ items[i].t = "spread"
           \/ items[i].t = "inline" /\ Spreads(items[i].sel)

\* C10: when the selected subscription spreads fragments that the document
\* defines, before or after the operation, the stub is built and its mapping
\* is the one the walk yields with every fragment of the document resolved
FragmentResolution ==
    (/\ stub # NoStub
     /\ Matches(doc, opName) # {}
     /\ Spreads(SelectedOp(doc, opName).sel)
     /\ CreateSubscriptionTypes(SelectedOp(doc, opName).sel, DocFragments(doc),
                                EmptyMap).ok)
    => /\ stub.state = "ok"
       /\ stub.types = CreateSubscriptionTypes(SelectedOp(doc, opName).sel,
                                               DocFragments(doc), EmptyMap).types

\* the directives that ask for the selection to be left out
Omit(d) == d \in {"skip_true", "include_false"}
\* position of the selected operation and the fragments defined before it
SelectedIdx(d, n) == CHOOSE i \in Matches(d, n) : \A j \in Matches(d, n) : i <= j
TableBefore(d, i) ==
    [n \in {d[j].name : j \in {k \in 1..(i - 1) : d[k].kind = "fragment"}} |->
        d[CHOOSE j \in 1..(i - 1) : d[j].kind = "fragment" /\ d[j].name = n].sel]
\* name of the first spread, in depth-first order and not left out by a
\* directive, of a fragment the table does not hold; NoName when there is none
RECURSIVE FirstUnknown(_, _)
FirstUnknown(items, table) ==
    IF items = <<>> THEN NoName
    ELSE LET x == Head(items)
             here == CASE Omit(x.dir) -> NoName
                       [] x.t = "spread" -> IF x.name \in DOMAIN table
                                            THEN FirstUnknown(table[x.name], table)
                                            ELSE x.name
                       [] x.t = "inline" -> FirstUnknown(x.sel, table)
                       [] OTHER -> NoName
         IN IF here # NoName THEN here ELSE FirstUnknown(Tail(items), table)
SelectedUnknown ==
    FirstUnknown(SelectedOp(doc, opName).sel,
                 TableBefore(doc, SelectedIdx(doc, opName)))

\* C11: when the selected subscription spreads, outside every omitted
\* selection, a fragment that is not in the fragment table, the result is the
\* error UnknownFragment naming the first such fragment and nothing else: no
\* stub and no mapping
UnknownFragmentFails ==
    (/\ stub # NoStub
     /\ Matches(doc, opName) # {}
     /\ SelectedUnknown # NoName)
    => stub = [state |-> "err", err |-> <<"UnknownFragment", SelectedUnknown>>]

\* C11 witness: the walk registered a field, then met the unknown spread, and
\* a second unknown spread stands after the first
UnknownFragmentFailsWitness ==
    /\ stub # NoStub
    /\ Matches(doc, opName) # {}
    /\ \E i \in 1..Len(doc) :
          /\ doc[i].kind = "subscription" /\ doc[i].name = opName
          /\ \/ doc[i].sel = <<Field("a", "none"), FragmentSpread("F", "none")>>
             \/ doc[i].sel = <<FragmentSpread("H", "none"), FragmentSpread("G", "none")>>
    /\ SelectedUnknown # NoName

\* the selection set without the omitted selections, and with the directives
\* of the others taken off
RECURSIVE Strip(_)
Strip(items) ==
    IF items = <<>> THEN <<>>
    ELSE LET x == Head(items)
         IN IF Omit(x.dir) THEN Strip(Tail(items))
            ELSE <<[x EXCEPT !.dir = "none", !.sel = Strip(x.sel)]>> \o Strip(Tail(items))
StripDoc(d) == [i \in DOMAIN d |-> [d[i] EXCEPT !.sel = Strip(d[i].sel)]]

\* C12: the result of compiling a document is the result of compiling it with
\* every omitted field, spread and inline fragment deleted (with all below
\* it) and every @skip(if: false) and @include(if: true) taken off
DirectiveEvaluation ==
    stub # NoStub => stub = CreateSubscriptionStub(StripDoc(doc), opName)

\* C12 witness: an omitted inline fragment around a spread of an undefined
\* fragment, followed by a field under @skip(if: false), compiled to the
\* mapping of that field alone
DirectiveEvaluationWitness ==
    /\ stub # NoStub
    /\ Matches(doc, opName) # {}
    /\ SelectedOp(doc, opName).sel =
           <<InlineFragment("include_false", <<FragmentSpread("H", "none")>>),
             Field("b", "skip_false")>>
    /\ stub.state = "ok"
    /\ stub.types = MapInsert(EmptyMap, FieldType("b"), "b")

RemoveIdempotent ==
    \A k \in SlabKeys :
        LET once == SlabRemove(slab, slabNext, k)
            twice == SlabRemove(once.slab, once.next, k)
        IN /\ ~twice.panic
           /\ twice.slab = once.slab
           /\ twice.next = once.next

RemoveIds(p) == {remove[p][i] : i \in 1..Len(remove[p])}

\* C15: no step puts a new entry under a slot id that holds one, and the
\* prune of a publish pass does not panic and takes out exactly the ids it
\* collected, each still holding the entry the pass found under that id and
\* whose receiver was dropped when the pass sent to it
SlotNonAliasing ==
    [][/\ \A k \in SlabKeys :
             (k + 1 <= Len(slab') /\ slab'[k + 1].occ) => slab'[k + 1].val = slab[k + 1].val
       /\ \A p \in Publishers :
             (pc[p] = "iter" /\ pc'[p] # "iter") =>
                 /\ pc'[p] = "done"
                 /\ \A id \in RemoveIds(p) :
                       /\ id \in SlabKeys
                       /\ <<id, slab[id + 1].val>> \in passStart[p]
                       /\ id \in passDead[p]
                 /\ {k \in SlabKeys : ~(k + 1 <= Len(slab') /\ slab'[k + 1].occ)}
                       = RemoveIds(p)]_vars

\* C15 witness: session 1 registered under slot id 0 and closed, a publish
\* took its entry out, and session 2 was registered under the reused id 0
SlotNonAliasingWitness ==
    /\ sessState[1] = "Closed"
    /\ slab = <<Occupied(2)>>

\* the step handles the frame at the head of the session's transport stream
Handles(s, kinds) ==
    /\ HandleReady(s)
    /\ Kind(Head(inbox[s])) \in kinds
    /\ Len(inbox'[s]) < Len(inbox[s])

\* C16: handling a Ping sets the heartbeat timestamp to now and writes one
\* pong with the ping's payload, handling a Pong sets the timestamp and writes
\* nothing, handling a Nop changes neither; none of them starts a relay into
\* the pipeline sink, adds to it, or changes the session's state
PingPong ==
    [][\A s \in Sessions :
          /\ Handles(s, {"Ping"}) =>
                /\ elapsed'[s] = 0
                /\ pongOut'[s] = Append(pongOut[s], Payload(Head(inbox[s])))
          /\ Handles(s, {"Pong"}) =>
                /\ elapsed'[s] = 0
                /\ pongOut'[s] = pongOut[s]
          /\ Handles(s, {"Nop"}) =>
                /\ elapsed'[s] = elapsed[s]
                /\ pongOut'[s] = pongOut[s]
          /\ Handles(s, {"Ping", "Pong", "Nop"}) =>
                /\ sessState'[s] = sessState[s]
                /\ wait'[s] = "none"
                /\ pipeQ'[s] = pipeQ[s]
                /\ recv'[s] = recv[s]
                /\ rxAlive'[s] = rxAlive[s]]_vars

\* C16 witness: an Active session has answered two pings of different
\* payloads, in their order
PingPongWitness ==
    \E s \in Sessions :
        /\ sessState[s] = "Active"
        /\ Len(pongOut[s]) = 2
        /\ pongOut[s][1] # pongOut[s][2]

\* C17: when the relay of a Text frame ends on a closed pipeline sink the
\* session stays Active with its heartbeat timestamp as it was, nothing is
\* added to the sink and the context runs again; a session is only ever
\* closed by handling a protocol error or a terminal frame, or by a heartbeat
\* tick that finds the window exceeded
RelayErrorSwallowed ==
    [][\A s \in Sessions :
          /\ (wait[s] = "relay" /\ wait'[s] # "relay" /\ ~pipeAlive[s]) =>
                /\ sessState'[s] = "Active"
                /\ closedBy'[s] = "none"
                /\ wait'[s] = "none"
                /\ elapsed'[s] = elapsed[s]
                /\ pipeQ'[s] = pipeQ[s]
                /\ rxAlive'[s] = rxAlive[s]
          /\ (sessState[s] # "Closed" /\ sessState'[s] = "Closed") =>
                \/ Handles(s, Terminal \cup {"Err"})
                \/ TickReady(s) /\ Expired(elapsed[s])]_vars

\* C17 witness: a Text frame is being relayed into a sink whose receiver is
\* gone, some time after the last heartbeat
RelayErrorSwallowedWitness ==
    \E s \in Sessions : wait[s] = "relay" /\ ~pipeAlive[s] /\ elapsed[s] > 0

\* C18: two events that two sessions have both been handed were handed to
\* them in the same order
FanoutAtomic ==
    \A s, t \in Sessions :
        \A i, j \in 1..Len(Handed(s)) : \A k, l \in 1..Len(Handed(t)) :
            (/\ i < j
             /\ Handed(t)[k] = Handed(s)[i]
             /\ Handed(t)[l] = Handed(s)[j]) => k < l

\* C18 witness: two sessions have each been handed the events of two
\* different publishers
FanoutAtomicWitness ==
    \E s, t \in Sessions :
        /\ s # t
        /\ Len(Handed(s)) = 2 /\ Len(Handed(t)) = 2
        /\ Handed(s)[1][1] # Handed(s)[2][1]
        /\ Got(s) = Got(t)

\* the step writes an item of the subscription stream to the transport
WritesEvent(s) == EventReady(s) /\ Len(recv'[s]) > Len(recv[s])

\* C19: handling a Text frame and writing an outbound event leave the
\* heartbeat timestamp as it was, and a session whose timestamp is older than
\* Window, whatever Text frames and events it has seen since, is closed by the
\* heartbeat tick then due: no further tick interval passes with it alive
OnlyBeatsRefresh ==
    [][\A s \in Sessions :
          /\ Handles(s, {"Text"}) => elapsed'[s] = elapsed[s]
          /\ WritesEvent(s) => elapsed'[s] = elapsed[s]
          /\ (TimePass /\ Live(s)) => ~Expired(elapsed[s])]_vars

\* C20: handling a Text frame while the session has no sink starts no relay,
\* adds nothing to a sink, does not stop the session and leaves its state,
\* heartbeat timestamp and pongs as they were; becoming Active sets the sink,
\* and a sink that is set stays set
TextWithoutSink ==
    [][\A s \in Sessions :
          /\ (Handles(s, {"Text"}) /\ ~sink[s]) =>
                /\ sessState'[s] = sessState[s]
                /\ closedBy'[s] = "none"
                /\ wait'[s] = "none"
                /\ pipeQ'[s] = pipeQ[s]
                /\ elapsed'[s] = elapsed[s]
                /\ pongOut'[s] = pongOut[s]
                /\ sink'[s] = sink[s]
          /\ (sessState[s] = "Connecting" /\ sessState'[s] = "Active") => sink'[s]
          /\ sink[s] => sink'[s]]_vars

\* C20 witness: a Text frame is at the head of the transport stream of a
\* Connecting session that has no sink and whose context is running
TextWithoutSinkWitness ==
    \E s \in Sessions :
        /\ sessState[s] = "Connecting" /\ ~sink[s]
        /\ HandleReady(s) /\ Kind(Head(inbox[s])) = "Text"
        /\ elapsed[s] > 0

====
